---- MODULE Spec2Model ----
(***************************************************************************)
(* State-machine model of the CCTP V2 multichain payment gateway           *)
(* (src/src/MultichainPaymentGateway.jsx): the hand-written call encoder,  *)
(* the React state of the component, the async processPayment pipeline,    *)
(* the balance aggregator and the wallet provider it talks to.             *)
(*                                                                         *)
(* JavaScript strings that the code slices, pads or concatenates are       *)
(* modelled as sequences of one-character strings.                         *)
(***************************************************************************)
EXTENDS Integers, Sequences, FiniteSets, TLC

(***************************************************************************)
(* Bounds of the model.                                                    *)
(***************************************************************************)
\* events started by the user or the wallet in one behaviour: edits of the
\* payment form, clicks on Process Payment, accountsChanged and chainChanged
\* notifications
MaxEvents == 2

(***************************************************************************)
(* CHAIN_CONFIG: the chain registry (lines 17-84).                         *)
(***************************************************************************)
tokenMessenger_Ethereum ==
  <<
    "0", "x", "B", "d", "3", "f", "a", "8", "1", "B", "5", "8", "B", "a", "9", "2",
    "a", "8", "2", "1", "3", "6", "0", "3", "8", "B", "2", "5", "a", "D", "e", "c",
    "7", "0", "6", "6", "a", "f", "3", "1", "5", "5" >>

usdc_Ethereum ==
  <<
    "0", "x", "A", "0", "b", "8", "6", "9", "9", "1", "c", "6", "2", "1", "8", "b",
    "3", "6", "c", "1", "d", "1", "9", "D", "4", "a", "2", "e", "9", "E", "b", "0",
    "c", "E", "3", "6", "0", "6", "e", "B", "4", "8" >>

tokenMessenger_Arbitrum ==
  <<
    "0", "x", "1", "9", "3", "3", "0", "d", "1", "0", "D", "9", "C", "c", "8", "7",
    "5", "1", "2", "1", "8", "e", "a", "f", "5", "1", "E", "8", "8", "8", "5", "D",
    "0", "5", "8", "6", "4", "2", "E", "0", "8", "A" >>

usdc_Arbitrum ==
  <<
    "0", "x", "a", "f", "8", "8", "d", "0", "6", "5", "e", "7", "7", "c", "8", "c",
    "C", "2", "2", "3", "9", "3", "2", "7", "C", "5", "E", "D", "b", "3", "A", "4",
    "3", "2", "2", "6", "8", "e", "5", "8", "3", "1" >>

tokenMessenger_Base ==
  <<
    "0", "x", "d", "2", "0", "3", "D", "e", "3", "2", "1", "7", "0", "1", "3", "0",
    "0", "8", "2", "8", "9", "6", "b", "4", "1", "1", "1", "e", "D", "F", "8", "2",
    "5", "a", "4", "7", "7", "4", "c", "1", "8", "E" >>

usdc_Base ==
  <<
    "0", "x", "8", "3", "3", "5", "8", "9", "f", "C", "D", "6", "e", "D", "b", "6",
    "E", "0", "8", "f", "4", "c", "7", "C", "3", "2", "D", "4", "f", "7", "1", "b",
    "5", "4", "b", "d", "A", "0", "2", "9", "1", "3" >>

tokenMessenger_Avalanche ==
  <<
    "0", "x", "6", "B", "2", "5", "5", "3", "2", "e", "1", "0", "6", "0", "C", "E",
    "1", "0", "c", "c", "3", "B", "0", "A", "9", "9", "e", "5", "6", "8", "3", "b",
    "9", "1", "B", "F", "D", "e", "6", "9", "8", "2" >>

usdc_Avalanche ==
  <<
    "0", "x", "B", "9", "7", "E", "F", "9", "E", "f", "8", "7", "3", "4", "C", "7",
    "1", "9", "0", "4", "D", "8", "0", "0", "2", "F", "8", "b", "6", "B", "c", "6",
    "6", "D", "d", "9", "c", "4", "8", "a", "6", "E" >>

tokenMessenger_Linea ==
  <<
    "0", "x", "b", "1", "1", "4", "1", "b", "F", "8", "0", "C", "0", "B", "5", "6",
    "7", "6", "c", "8", "a", "6", "e", "9", "f", "9", "c", "8", "F", "4", "d", "C",
    "4", "c", "8", "F", "b", "8", "f", "7", "d", "0" >>

usdc_Linea ==
  <<
    "0", "x", "1", "7", "6", "2", "1", "1", "8", "6", "9", "c", "A", "2", "b", "5",
    "6", "8", "f", "2", "A", "7", "D", "4", "E", "E", "9", "4", "1", "E", "0", "7",
    "3", "a", "8", "2", "1", "E", "E", "1", "f", "f" >>

tokenMessenger_Sonic ==
  <<
    "0", "x", "a", "b", "c", "d", "e", "f", "1", "2", "3", "4", "5", "6", "7", "8",
    "9", "0", "a", "b", "c", "d", "e", "f", "1", "2", "3", "4", "5", "6", "7", "8",
    "9", "0", "a", "b", "c", "d", "e", "f", "1", "2" >>

usdc_Sonic ==
  <<
    "0", "x", "2", "9", "2", "1", "9", "d", "D", "4", "0", "0", "f", "2", "B", "f",
    "6", "0", "E", "5", "a", "2", "3", "d", "1", "3", "B", "e", "7", "2", "B", "4",
    "8", "6", "D", "4", "0", "3", "8", "8", "9", "4" >>

CHAIN_CONFIG ==
  (1     :> [name |-> "Ethereum",  domain |-> 0,  chainIdHex |-> "0x1",
             tokenMessenger |-> tokenMessenger_Ethereum,  usdc |-> usdc_Ethereum]) @@
  (42161 :> [name |-> "Arbitrum",  domain |-> 3,  chainIdHex |-> "0xa4b1",
             tokenMessenger |-> tokenMessenger_Arbitrum,  usdc |-> usdc_Arbitrum]) @@
  (8453  :> [name |-> "Base",      domain |-> 6,  chainIdHex |-> "0x2105",
             tokenMessenger |-> tokenMessenger_Base,      usdc |-> usdc_Base]) @@
  (43114 :> [name |-> "Avalanche", domain |-> 1,  chainIdHex |-> "0xa86a",
             tokenMessenger |-> tokenMessenger_Avalanche, usdc |-> usdc_Avalanche]) @@
  (59144 :> [name |-> "Linea",     domain |-> 9,  chainIdHex |-> "0xe708",
             tokenMessenger |-> tokenMessenger_Linea,     usdc |-> usdc_Linea]) @@
  (146   :> [name |-> "Sonic",     domain |-> 10, chainIdHex |-> "0x92",
             tokenMessenger |-> tokenMessenger_Sonic,     usdc |-> usdc_Sonic])

\* Object.keys(CHAIN_CONFIG)
ChainIds == DOMAIN CHAIN_CONFIG

(***************************************************************************)
(* HOOK_TEMPLATES (lines 87-112); "null" is the deselected hook.           *)
(***************************************************************************)
HOOK_TEMPLATES ==
  [autoSwap          |-> [name |-> "Auto Swap to Native Token", hookData |-> <<"0", "x", "0", "1">>],
   autoDeposit       |-> [name |-> "Auto Deposit to DeFi",      hookData |-> <<"0", "x", "0", "2">>],
   autoStake         |-> [name |-> "Auto Stake for Rewards",    hookData |-> <<"0", "x", "0", "3">>],
   treasuryRebalance |-> [name |-> "Treasury Auto-Rebalance",   hookData |-> <<"0", "x", "0", "4">>]]

HookKeys == DOMAIN HOOK_TEMPLATES

DefaultMerchantAddress ==
  <<
    "0", "x", "7", "4", "2", "d", "3", "5", "C", "c", "6", "6", "3", "4", "C", "0",
    "5", "3", "2", "9", "2", "5", "a", "3", "b", "8", "4", "4", "B", "c", "9", "e",
    "7", "5", "9", "5", "f", "8", "C", "2", "B", "2" >>

ZeroAddress ==
  <<
    "0", "x", "0", "0", "0", "0", "0", "0", "0", "0", "0", "0", "0", "0", "0", "0",
    "0", "0", "0", "0", "0", "0", "0", "0", "0", "0", "0", "0", "0", "0", "0", "0",
    "0", "0", "0", "0", "0", "0", "0", "0", "0", "0" >>

Bytes32Prefix ==
  <<
    "0", "x", "0", "0", "0", "0", "0", "0", "0", "0", "0", "0", "0", "0", "0", "0",
    "0", "0", "0", "0", "0", "0", "0", "0", "0", "0" >>

WalletAccount ==
  <<
    "0", "x", "1", "1", "1", "1", "1", "1", "1", "1", "1", "1", "1", "1", "1", "1",
    "1", "1", "1", "1", "1", "1", "1", "1", "1", "1", "1", "1", "1", "1", "1", "1",
    "1", "1", "1", "1", "1", "1", "1", "1", "1", "1" >>

sig_approve == << "0", "x", "0", "9", "5", "e", "a", "7", "b", "3" >>

sig_balanceOf == << "0", "x", "7", "0", "a", "0", "8", "2", "3", "1" >>

sig_decimals == << "0", "x", "3", "1", "3", "c", "e", "5", "6", "7" >>

sig_depositForBurnWithCaller == << "0", "x", "8", "c", "7", "a", "f", "8", "a", "5" >>

sig_depositForBurnWithHook == << "0", "x", "1", "f", "9", "0", "1", "4", "c", "5" >>

(***************************************************************************)
(* JavaScript values and the helpers of lines 115-118.                     *)
(***************************************************************************)
\* a JavaScript string value / number value (NaN is a number)
JsStr(s) == [t |-> "string", s |-> s, n |-> 0, nan |-> FALSE]
JsNum(n) == [t |-> "number", s |-> << >>, n |-> n, nan |-> FALSE]
JsNaN    == [t |-> "number", s |-> << >>, n |-> 0, nan |-> TRUE]

\* the outcome of evaluating an expression: a string, undefined, or a throw
Returned(s) == [thrown |-> FALSE, defined |-> TRUE,  s |-> s]
Undefined   == [thrown |-> FALSE, defined |-> FALSE, s |-> << >>]
TypeError   == [thrown |-> TRUE,  defined |-> FALSE, s |-> << >>]

HexDigit == <<"0", "1", "2", "3", "4", "5", "6", "7", "8", "9", "a", "b", "c", "d", "e", "f">>

\* a variant of NatToHex: the digits of toString(10)
RECURSIVE NatToHex_Decimal(_)
NatToHex_Decimal(n) == IF n < 10 THEN <<HexDigit[n + 1]>>
                       ELSE NatToHex_Decimal(n \div 10) \o <<HexDigit[(n % 10) + 1]>>

\* Number.prototype.toString(16) of a non-negative integer
RECURSIVE NatToHex(_)
NatToHex(n) == IF n < 16 THEN <<HexDigit[n + 1]>>
               ELSE NatToHex(n \div 16) \o <<HexDigit[(n % 16) + 1]>>

\* x.toString(16) of a JavaScript number
toString16(v) ==
  IF v.nan THEN <<"N", "a", "N">>
  ELSE IF v.n < 0 THEN <<"-">> \o NatToHex(-v.n)
  ELSE NatToHex(v.n)

\* String.prototype.slice(2)
Slice2(s) == IF Len(s) <= 2 THEN << >> ELSE SubSeq(s, 3, Len(s))

\* String.prototype.padStart(length, '0')
padStart(s, length) ==
  IF Len(s) >= length THEN s ELSE [i \in 1..(length - Len(s)) |-> "0"] \o s

\* const padHex = (hex, length) => hex.padStart(length, '0');
\* a number has no padStart method: the call throws a TypeError
padHex(hex, length) ==
  IF hex.t = "string" THEN Returned(padStart(hex.s, length)) ELSE TypeError

\* const addressToBytes32 = (address) => '0x000000000000000000000000' + address.slice(2);
addressToBytes32(address) == Bytes32Prefix \o Slice2(address)

\* the element of a singleton set; in The({ F(x) : x \in {v} }) the value v
\* is computed once, before F is applied to it
The(S) == CHOOSE x \in S : TRUE

\* data += piece, where evaluating piece may throw; undefined + string is
\* the string "undefined..." in JavaScript
Append2(data, piece) ==
  The({ IF d.thrown \/ p.thrown THEN TypeError
        ELSE IF d.defined THEN Returned(d.s \o p.s)
        ELSE Returned(<<"u", "n", "d", "e", "f", "i", "n", "e", "d">> \o p.s) :
        d \in {data}, p \in {piece} })

(***************************************************************************)
(* encodeFunctionCall (lines 121-154).  params is a record with the fields *)
(* the five functions read; amount and destinationDomain are JavaScript    *)
(* numbers, the others strings.                                            *)
(***************************************************************************)
functionSignatures ==
  [approve                  |-> sig_approve,
   balanceOf                |-> sig_balanceOf,
   decimals                 |-> sig_decimals,
   depositForBurnWithCaller |-> sig_depositForBurnWithCaller,
   depositForBurnWithHook   |-> sig_depositForBurnWithHook]

NoParams ==
  [spender |-> << >>, amount |-> JsNum(0), account |-> << >>,
   destinationDomain |-> JsNum(0), mintRecipient |-> << >>, burnToken |-> << >>,
   destinationCaller |-> << >>, hookData |-> << >>]

Signature(functionName) ==
  IF functionName \in DOMAIN functionSignatures
  THEN Returned(functionSignatures[functionName]) ELSE Undefined

\* line 149: padHex((params.hookData.length - 2) / 2, 64): the argument is
\* a number, not a string (for the even-length hookData of HOOK_TEMPLATES)
HookLengthArg(params) == JsNum((Len(params.hookData) - 2) \div 2)

encodeFunctionCall(functionName, params) ==
  LET data == Signature(functionName) IN
  IF functionName = "approve" THEN
    Append2(Append2(data,
      padHex(JsStr(Slice2(params.spender)), 64)),
      padHex(JsStr(toString16(params.amount)), 64))
  ELSE IF functionName = "balanceOf" THEN
    Append2(data, padHex(JsStr(Slice2(params.account)), 64))
  ELSE IF functionName = "depositForBurnWithCaller" THEN
    Append2(Append2(Append2(Append2(Append2(data,
      padHex(JsStr(toString16(params.amount)), 64)),
      padHex(JsStr(toString16(params.destinationDomain)), 64)),
      Returned(Slice2(params.mintRecipient))),
      padHex(JsStr(Slice2(params.burnToken)), 64)),
      Returned(Slice2(params.destinationCaller)))
  ELSE IF functionName = "depositForBurnWithHook" THEN
    Append2(Append2(Append2(Append2(Append2(Append2(Append2(data,
      padHex(JsStr(toString16(params.amount)), 64)),
      padHex(JsStr(toString16(params.destinationDomain)), 64)),
      Returned(Slice2(params.mintRecipient))),
      padHex(JsStr(Slice2(params.burnToken)), 64)),
      padHex(JsStr(<<"8", "0">>), 64)),
      padHex(HookLengthArg(params), 64)),
      Returned(Slice2(params.hookData)))
  ELSE data

(***************************************************************************)
(* parseFloat and the conversion of the amount to base units (line 297).   *)
(***************************************************************************)
Digits == {"0", "1", "2", "3", "4", "5", "6", "7", "8", "9"}

DigitVal(c) == CHOOSE d \in 0..9 : HexDigit[d + 1] = c

RECURSIVE TakeDigits(_)
TakeDigits(s) ==
  IF s = << >> \/ Head(s) \notin Digits THEN << >>
  ELSE <<Head(s)>> \o TakeDigits(Tail(s))

RECURSIVE DigitsToNat(_)
DigitsToNat(ds) ==
  IF ds = << >> THEN 0
  ELSE 10 * DigitsToNat(SubSeq(ds, 1, Len(ds) - 1)) + DigitVal(ds[Len(ds)])

\* parseFloat(s) for a decimal literal without exponent: optional sign,
\* integer digits, optional fraction; NaN when there is no digit
parseFloat(s) ==
  LET signed == s # << >> /\ Head(s) \in {"-", "+"}
      body   == IF signed THEN Tail(s) ELSE s
      ip     == TakeDigits(body)
      rest   == SubSeq(body, Len(ip) + 1, Len(body))
      fp     == IF rest # << >> /\ Head(rest) = "." THEN TakeDigits(Tail(rest)) ELSE << >>
  IN  [nan  |-> (ip = << >> /\ fp = << >>),
       neg  |-> (s # << >> /\ Head(s) = "-"),
       int  |-> ip,
       frac |-> fp]

\* parseFloat(amount) <= 0 (false for NaN)
NotPositive(v) ==
  /\ ~v.nan
  /\ \/ v.neg
     \/ \A i \in 1..Len(v.int \o v.frac) : (v.int \o v.frac)[i] = "0"

(***************************************************************************)
(* The double arithmetic of line 297.  A natural number is held as five    *)
(* limbs of six decimal digits, least significant first; a positive double *)
(* is m * 2^(-e) with m <= 2^53.  The operators cover amounts below 2^53   *)
(* with at most eight fraction digits whose base-unit value is below 2^31. *)
(***************************************************************************)
Base == 1000000

\* 2^52 and 2^53
Two52 == << 370496, 599627, 4503, 0, 0 >>
Two53 == << 740992, 199254, 9007, 0, 0 >>

\* the number written by at most 30 decimal digits
DigitsToBig(ds) ==
  LET padded == [i \in 1..(30 - Len(ds)) |-> "0"] \o ds
      limb(i) == DigitsToNat(SubSeq(padded, 31 - 6 * i, 36 - 6 * i))
  IN  << limb(1), limb(2), limb(3), limb(4), limb(5) >>

\* a * n for 0 < n < 2048
BigMul(a, n) ==
  LET c1 == a[1] * n
      c2 == a[2] * n + c1 \div Base
      c3 == a[3] * n + c2 \div Base
      c4 == a[4] * n + c3 \div Base
      c5 == a[5] * n + c4 \div Base
  IN  << c1 % Base, c2 % Base, c3 % Base, c4 % Base, c5 % Base >>

\* a \div n and a % n for 0 < n < 2048
BigDiv(a, n) ==
  LET r5 == a[5]
      r4 == (r5 % n) * Base + a[4]
      r3 == (r4 % n) * Base + a[3]
      r2 == (r3 % n) * Base + a[2]
      r1 == (r2 % n) * Base + a[1]
  IN  [q |-> << r1 \div n, r2 \div n, r3 \div n, r4 \div n, r5 \div n >>, r |-> r1 % n]

BigLess(a, b) ==
  \E i \in 1..5 : a[i] < b[i] /\ \A j \in (i + 1)..5 : a[j] = b[j]

BigInc(a) ==
  LET k == CHOOSE i \in 1..5 : a[i] # Base - 1 /\ \A j \in 1..(i - 1) : a[j] = Base - 1
  IN  << IF 1 < k THEN 0 ELSE a[1] + 1,
         IF 2 < k THEN 0 ELSE IF 2 = k THEN a[2] + 1 ELSE a[2],
         IF 3 < k THEN 0 ELSE IF 3 = k THEN a[3] + 1 ELSE a[3],
         IF 4 < k THEN 0 ELSE IF 4 = k THEN a[4] + 1 ELSE a[4],
         IF 5 = k THEN a[5] + 1 ELSE a[5] >>

BigOdd(a) == a[1] % 2 = 1

BigToNat(a) == a[1] + Base * a[2]

RECURSIVE MulPow10(_, _)
MulPow10(a, k) ==
  IF k = 0 THEN a ELSE The({ MulPow10(b, j) : b \in {BigMul(a, 10)}, j \in {k - 1} })

\* a / 10^k: the quotient, the last digit dropped and whether a digit
\* dropped before it was not zero
RECURSIVE DivPow10(_, _, _, _)
DivPow10(a, k, last, sticky) ==
  IF k = 0 THEN [q |-> a, last |-> last, sticky |-> sticky]
  ELSE The({ DivPow10(d.q, j, d.r, s) :
               d \in {BigDiv(a, 10)}, j \in {k - 1}, s \in {sticky \/ last # 0} })

\* a * 2^e with the least e that makes a >= bound, in steps of 2^10, 2^3
\* and 2
RECURSIVE Scale(_, _, _)
Scale(a, e, bound) ==
  The({ IF BigLess(a1024, bound) THEN Scale(a1024, e10, bound)
        ELSE IF BigLess(a8, bound) THEN Scale(a8, e3, bound)
        ELSE IF BigLess(a, bound) THEN Scale(a2, e1, bound)
        ELSE [m |-> a, e |-> e] :
        a1024 \in {BigMul(a, 1024)}, a8 \in {BigMul(a, 8)}, a2 \in {BigMul(a, 2)},
        e10 \in {e + 10}, e3 \in {e + 3}, e1 \in {e + 1} })

\* a / 2^j with the least j that makes the quotient < 2^53: the quotient,
\* the last bit dropped and whether a bit dropped before it was set
RECURSIVE Narrow(_, _, _, _)
Narrow(a, e, half, sticky) ==
  The({ IF ~BigLess(d1024.q, Two53)
        THEN The({ Narrow(d1024.q, e10, h, s) :
                     h \in {d1024.r >= 512}, s \in {below \/ d1024.r % 512 # 0} })
        ELSE IF ~BigLess(d8.q, Two53)
        THEN The({ Narrow(d8.q, e3, h, s) :
                     h \in {d8.r >= 4}, s \in {below \/ d8.r % 4 # 0} })
        ELSE IF ~BigLess(a, Two53)
        THEN The({ Narrow(d2.q, e1, h, below) : h \in {BigOdd(a)} })
        ELSE [m |-> a, e |-> e, half |-> half, sticky |-> sticky] :
        d1024 \in {BigDiv(a, 1024)}, d8 \in {BigDiv(a, 8)}, d2 \in {BigDiv(a, 2)},
        e10 \in {e - 10}, e3 \in {e - 3}, e1 \in {e - 1}, below \in {sticky \/ half} })

\* the decimal literal p / 10^k (p > 0) as a double: correctly rounded,
\* ties to even
ToDouble(p, k) ==
  The({ The({ LET up == d.last > 5 \/ (d.last = 5 /\ (d.sticky \/ BigOdd(d.q)))
              IN  [m |-> IF up THEN BigInc(d.q) ELSE d.q, e |-> scaled.e] :
              d \in {DivPow10(scaled.m, k, 0, FALSE)} }) :
        scaled \in { Scale(p, 0, bound) : bound \in {MulPow10(Two52, k)} } })

\* x * 1e6 in double arithmetic: the exact product rounded to 53 bits,
\* ties to even
Times1e6(x) ==
  The({ LET up == n.half /\ (n.sticky \/ BigOdd(n.m))
        IN  [m |-> IF up THEN BigInc(n.m) ELSE n.m, e |-> n.e] :
        n \in { Narrow(product, x.e, FALSE, FALSE) :
                product \in { BigMul(thousand, 1000) : thousand \in {BigMul(x.m, 1000)} } } })

\* the integer part of m * 2^(-e) and whether the double is that integer
RECURSIVE Floor(_, _, _)
Floor(m, e, exact) ==
  IF e >= 10 THEN
    The({ The({ Floor(d.q, j, x) : j \in {e - 10}, x \in {exact /\ d.r = 0} }) :
          d \in {BigDiv(m, 1024)} })
  ELSE IF e >= 3 THEN
    The({ The({ Floor(d.q, j, x) : j \in {e - 3}, x \in {exact /\ d.r = 0} }) :
          d \in {BigDiv(m, 8)} })
  ELSE IF e > 0 THEN
    The({ The({ Floor(d.q, j, x) : j \in {e - 1}, x \in {exact /\ d.r = 0} }) :
          d \in {BigDiv(m, 2)} })
  ELSE IF e < 0 THEN The({ Floor(d, j, exact) : d \in {BigMul(m, 2)}, j \in {e + 1} })
  ELSE [n |-> BigToNat(m), exact |-> exact]

\* Math.floor(parseFloat(amount) * 1e6) (line 297)
amountInUnits(amount) ==
  The({ IF v.nan THEN JsNaN
        ELSE IF \A i \in 1..Len(v.int \o v.frac) : (v.int \o v.frac)[i] = "0" THEN JsNum(0)
        ELSE The({ IF v.neg THEN JsNum(0 - f.n - (IF f.exact THEN 0 ELSE 1)) ELSE JsNum(f.n) :
                   f \in { Floor(y.m, y.e, TRUE) :
                           y \in { Times1e6(x) :
                                   x \in { ToDouble(p, Len(v.frac)) :
                                           p \in {DigitsToBig(v.int \o v.frac)} } } } }) :
        v \in {parseFloat(amount)} })

(***************************************************************************)
(* Inputs of the model.                                                    *)
(***************************************************************************)
\* useState(null) of account; an account is never the empty string
Null == << >>

\* the chains the user picks in "Pay From" / "Settle To"
FormChains == {1, 42161}

\* the chains the user selects in the wallet; 5 is not in CHAIN_CONFIG
WalletChains == {1, 5}

\* values typed into the Amount field; the last is below one base unit
Amounts == { <<"1", "0", "0">>, <<"1", "0">>, <<"0">>,
             <<"0", ".", "0", "0", "0", "0", "0", "0", "1">> }

\* values typed into the Merchant Address field; the second is malformed
MerchantAddresses == { DefaultMerchantAddress, <<"0", "x", "1", "2">> }

\* the hook buttons the user clicks
FormHooks == {"treasuryRebalance"}

\* results of getUSDCBalance other than the '0' of its catch block
BalanceResults == {"5.00"}

\* function names passed to encodeFunctionCall: the five of
\* functionSignatures and two that are not registered
EncodeNames == (DOMAIN functionSignatures) \cup {"depositForBurn", "transfer"}

\* addresses passed as spender, account and burnToken
EncodeAddresses ==
  {CHAIN_CONFIG[c].tokenMessenger : c \in ChainIds} \cup {CHAIN_CONFIG[c].usdc : c \in ChainIds}
    \cup {WalletAccount, DefaultMerchantAddress}

\* amounts in base units passed to encodeFunctionCall
EncodeAmounts == {0, 1, 255, 1000000, 100000000}

\* the params objects passed to encodeFunctionCall
EncodeParams ==
  { [spender |-> a, amount |-> JsNum(n), account |-> a,
     destinationDomain |-> JsNum(CHAIN_CONFIG[c].domain),
     mintRecipient |-> addressToBytes32(DefaultMerchantAddress), burnToken |-> a,
     destinationCaller |-> addressToBytes32(ZeroAddress),
     hookData |-> HOOK_TEMPLATES[h].hookData] :
    a \in EncodeAddresses, n \in EncodeAmounts, c \in FormChains, h \in HookKeys }

\* amounts converted on their own: one or two fraction digits, the values
\* of Amounts and the 1.2345678 of the truncation example
ConvertAmounts ==
  { <<i, ".", d>> : i \in Digits, d \in Digits }
    \cup { <<i, ".", d, e>> : i \in Digits, d \in Digits, e \in Digits }
    \cup Amounts \cup { <<"1", ".", "2", "3", "4", "5", "6", "7", "8">> }

\* chain registries loaded on their own: four chain ids, each with one of
\* the four domains the shipped registry gives them
RegistryChains == {1, 42161, 8453, 43114}
Registries == [RegistryChains -> {CHAIN_CONFIG[c].domain : c \in RegistryChains}]

\* a well-formed recipient: 0x followed by 40 hex digits
WellFormedAddress(a) ==
  /\ Len(a) = 42
  /\ a[1] = "0" /\ a[2] = "x"
  /\ \A i \in 3..42 : a[i] \in Digits \cup {"a", "b", "c", "d", "e", "f",
                                            "A", "B", "C", "D", "E", "F"}

(***************************************************************************)
(* State.                                                                  *)
(***************************************************************************)
VARIABLES
  \* React state of the component (lines 163-173)
  account, sourceChain, destinationChain, amount, merchantAddress,
  selectedHook, fastTransferEnabled, isProcessing, transactionStatus, balances,
  \* the wallet provider: active chain (Ethereum mainnet when the page
  \* loads), receipt status of every submitted transaction, next
  \* transaction hash
  walletChain, receipts, nextTx,
  \* the running processPayment invocation: the await it is suspended at,
  \* the state its closure captured, its two transaction hashes and the
  \* wallet requests it has had answered
  pc, req, approveTx, burnTx, calls,
  \* pending setTimeout callbacks of processPayment (lines 391, 401)
  timers,
  \* updateBalances invocations in flight
  updates,
  \* the accountsChanged/chainChanged listeners registered by useEffect
  handlers,
  \* connectWallet: the await it is suspended at and its closure's balances
  \* (empty again once the invocation has ended)
  connectPc, connectBal,
  \* the number of user and wallet events so far
  events,
  \* the arguments and the result of a call of encodeFunctionCall, or of
  \* the amount conversion of line 297, made on its own
  input, output

vars == << account, sourceChain, destinationChain, amount, merchantAddress,
           selectedHook, fastTransferEnabled, isProcessing, transactionStatus,
           balances, walletChain, receipts, nextTx, pc, req, approveTx, burnTx,
           calls, timers, updates, handlers, connectPc, connectBal,
           events, input, output >>

formVars == << sourceChain, destinationChain, amount, merchantAddress,
               selectedHook, fastTransferEnabled >>
walletVars == << walletChain, receipts, nextTx >>
paymentVars == << pc, req, approveTx, burnTx, calls >>
connectVars == << connectPc, connectBal >>
callVars == << input, output >>

\* useState({}) of balances
EmptyBalances == [c \in {} |-> "0"]

\* useState(null) of transactionStatus
NoStatus ==
  [status |-> "null", message |-> "", hasDetails |-> FALSE, from |-> "", to |-> "",
   amount |-> << >>, recipient |-> << >>, txHash |-> 0, estimatedTime |-> "",
   hook |-> "", attestationReceived |-> FALSE]

\* { status, message } as written by lines 287, 300, 327 and 404
Status(status, message) == [NoStatus EXCEPT !.status = status, !.message = message]

\* the state a processPayment closure reads (the render it was created in)
NoReq ==
  [account |-> Null, sourceChain |-> 1, destinationChain |-> 1, amount |-> << >>,
   merchantAddress |-> << >>, selectedHook |-> "null", fastTransferEnabled |-> FALSE,
   balances |-> EmptyBalances]

\* an answered wallet request of the running transfer (a receipt request
\* answered with null is not recorded), with the chain the wallet was on
Call(method, to, data, result, tx) ==
  [method |-> method, to |-> to, data |-> data, result |-> result, tx |-> tx,
   chain |-> walletChain]

\* the component after it has mounted, with the hook selection given
Mounted(hook) ==
  /\ account = Null
  /\ sourceChain = 1
  /\ destinationChain = 42161
  /\ amount = <<"1", "0", "0">>
  /\ merchantAddress = DefaultMerchantAddress
  /\ selectedHook = hook
  /\ fastTransferEnabled = TRUE
  /\ isProcessing = FALSE
  /\ transactionStatus = NoStatus
  /\ balances = EmptyBalances
  /\ walletChain = 1
  /\ receipts = << >>
  /\ nextTx = 1
  /\ pc = "idle"
  /\ req = NoReq
  /\ approveTx = 0
  /\ burnTx = 0
  /\ calls = << >>
  /\ timers = << >>
  /\ updates = << >>
  /\ handlers = << [account |-> Null, balances |-> EmptyBalances] >>
  /\ connectPc = "idle"
  /\ connectBal = EmptyBalances
  /\ events = 0

\* no call made on its own
NoCall == << >>

Init ==
  /\ Mounted("treasuryRebalance")
  /\ input = NoCall
  /\ output = NoCall

(***************************************************************************)
(* updateBalances (lines 236-256) and getUSDCBalance (lines 200-233).      *)
(***************************************************************************)
\* a call of updateBalances(address) from a closure that captured balances
\* bal, suspended at the eth_chainId request
Update(address, bal) == [address |-> address, balances |-> bal, pc |-> "eth_chainId", cur |-> 0]

RemoveAt(s, i) == SubSeq(s, 1, i - 1) \o SubSeq(s, i + 1, Len(s))

\* balances[chainId] || '0' of the closure's balances
Cached(bal, c) == IF c \in DOMAIN bal /\ bal[c] # "" THEN bal[c] ELSE "0"

\* newBalances as built by lines 237-253: the active chain's entry (only
\* when it is a registered chain) and the closure's value for the others
newBalances(bal, cur, fetched) ==
  [c \in ChainIds |-> IF c = cur THEN fetched ELSE Cached(bal, c)]

\* the listeners a chainChanged notification runs (lines 426-430): every
\* registered listener whose closure holds an account calls updateBalances
RECURSIVE ChainChangedUpdates(_)
ChainChangedUpdates(hs) ==
  IF hs = << >> THEN << >>
  ELSE (IF Head(hs).account # Null
        THEN << Update(Head(hs).account, Head(hs).balances) >> ELSE << >>)
       \o ChainChangedUpdates(Tail(hs))

\* the listeners an accountsChanged notification with a non-empty list runs
\* (lines 417-419)
RECURSIVE AccountsChangedUpdates(_, _)
AccountsChangedUpdates(hs, a) ==
  IF hs = << >> THEN << >>
  ELSE << Update(a, Head(hs).balances) >> \o AccountsChangedUpdates(Tail(hs), a)

\* useEffect(..., [account]) (lines 414-432): a render in which account
\* changed registers one more pair of listeners; none is ever removed
Registered(newAccount, bal) ==
  IF newAccount # account
  THEN Append(handlers, [account |-> newAccount, balances |-> bal])
  ELSE handlers

\* a variant of UpdateChainId: line 245 without its test of
\* CHAIN_CONFIG[currentChainIdDec]; for a chain that is not registered
\* getUSDCBalance returns '0' from its catch block without a request
UpdateChainId_NoRegistryCheck(i) ==
  /\ i \in DOMAIN updates
  /\ updates[i].pc = "eth_chainId"
  /\ IF walletChain \in ChainIds
     THEN /\ updates' = [updates EXCEPT ![i].pc = "getUSDCBalance", ![i].cur = walletChain]
          /\ UNCHANGED balances
     ELSE /\ balances' = [c \in ChainIds \cup {walletChain} |->
                            IF c = walletChain THEN "0" ELSE Cached(updates[i].balances, c)]
          /\ updates' = RemoveAt(updates, i)
  /\ UNCHANGED << account, formVars, isProcessing, transactionStatus, walletVars,
                  paymentVars, timers, handlers, connectVars, callVars, events >>

\* updateBalances: the eth_chainId request is answered
UpdateChainId(i) ==
  /\ i \in DOMAIN updates
  /\ updates[i].pc = "eth_chainId"
  /\ IF walletChain \in ChainIds
     THEN /\ updates' = [updates EXCEPT ![i].pc = "getUSDCBalance", ![i].cur = walletChain]
          /\ UNCHANGED balances
     ELSE /\ balances' = [c \in ChainIds |-> Cached(updates[i].balances, c)]
          /\ updates' = RemoveAt(updates, i)
  /\ UNCHANGED << account, formVars, isProcessing, transactionStatus, walletVars,
                  paymentVars, timers, handlers, connectVars, callVars, events >>

\* updateBalances: getUSDCBalance returns (a fetched value, or '0' from its
\* catch block) and setBalances(newBalances) runs
UpdateBalance(i, fetched) ==
  /\ i \in DOMAIN updates
  /\ updates[i].pc = "getUSDCBalance"
  /\ balances' = newBalances(updates[i].balances, updates[i].cur, fetched)
  /\ updates' = RemoveAt(updates, i)
  /\ UNCHANGED << account, formVars, isProcessing, transactionStatus, walletVars,
                  paymentVars, timers, handlers, connectVars, callVars, events >>

(***************************************************************************)
(* connectWallet (lines 185-197).                                          *)
(***************************************************************************)
\* click on Connect Wallet (rendered only while account is null)
ConnectClick ==
  /\ account = Null
  /\ connectPc = "idle"
  /\ connectPc' = "eth_requestAccounts"
  /\ connectBal' = balances
  /\ UNCHANGED << account, formVars, isProcessing, transactionStatus, balances,
                  walletVars, paymentVars, timers, updates, handlers, events,
                  callVars >>

\* eth_requestAccounts is answered: setAccount(accounts[0]) and the call of
\* updateBalances(accounts[0]); a rejection is caught and logged
ConnectResult(ok) ==
  /\ connectPc = "eth_requestAccounts"
  /\ connectPc' = "idle"
  /\ connectBal' = EmptyBalances
  /\ IF ok
     THEN /\ account' = WalletAccount
          /\ updates' = Append(updates, Update(WalletAccount, connectBal))
          /\ handlers' = Registered(WalletAccount, balances)
     ELSE UNCHANGED << account, updates, handlers >>
  /\ UNCHANGED << formVars, isProcessing, transactionStatus, balances, walletVars,
                  paymentVars, timers, events, callVars >>

(***************************************************************************)
(* Wallet notifications (lines 416-430).                                   *)
(***************************************************************************)
\* accountsChanged with accounts = [WalletAccount] or []; the wallet
\* notifies when its list of exposed accounts changes
AccountsChanged(connected) ==
  /\ connected = (account = Null)
  /\ events < MaxEvents
  /\ events' = events + 1
  /\ IF connected
     THEN /\ account' = WalletAccount
          /\ updates' = updates \o AccountsChangedUpdates(handlers, WalletAccount)
          /\ handlers' = Registered(WalletAccount, balances)
          /\ UNCHANGED balances
     ELSE /\ account' = Null
          /\ balances' = EmptyBalances
          /\ handlers' = Registered(Null, EmptyBalances)
          /\ UNCHANGED updates
  /\ UNCHANGED << formVars, isProcessing, transactionStatus, walletVars,
                  paymentVars, timers, connectVars, callVars >>

\* the user selects another network in the wallet: chainChanged
ChainChanged(c) ==
  /\ events < MaxEvents
  /\ events' = events + 1
  /\ c \in WalletChains /\ c # walletChain
  /\ walletChain' = c
  /\ updates' = updates \o ChainChangedUpdates(handlers)
  /\ UNCHANGED << account, formVars, isProcessing, transactionStatus, balances,
                  receipts, nextTx, paymentVars, timers, handlers, connectVars, callVars >>

\* a submitted transaction that is being polled is included in a block,
\* successfully ("0x1") or reverted ("0x0")
Mine(tx, result) ==
  /\ \/ pc \in {"approve_sleep", "approve_poll"} /\ tx = approveTx
     \/ pc \in {"burn_sleep", "burn_poll"} /\ tx = burnTx
  /\ receipts[tx] = "none"
  /\ receipts' = [receipts EXCEPT ![tx] = result]
  /\ UNCHANGED << account, formVars, isProcessing, transactionStatus, balances,
                  walletChain, nextTx, paymentVars, timers, updates, handlers,
                  connectVars, callVars, events >>

(***************************************************************************)
(* The payment form (lines 490-523, 557-632).                              *)
(***************************************************************************)
Edit ==
  /\ events < MaxEvents
  /\ events' = events + 1
  /\ UNCHANGED << account, isProcessing, transactionStatus, balances, walletVars,
                  paymentVars, timers, updates, handlers, connectVars, callVars >>

\* "Pay From" button: setSourceChain(parseInt(chainId))
SetSourceChain(c) ==
  /\ Edit
  /\ c # sourceChain
  /\ sourceChain' = c
  /\ UNCHANGED << destinationChain, amount, merchantAddress, selectedHook,
                  fastTransferEnabled >>

\* "Settle To" button, disabled for the chain that is the source chain
SetDestinationChain(c) ==
  /\ Edit
  /\ c # sourceChain
  /\ c # destinationChain
  /\ destinationChain' = c
  /\ UNCHANGED << sourceChain, amount, merchantAddress, selectedHook,
                  fastTransferEnabled >>

SetAmount(a) ==
  /\ Edit
  /\ a # amount
  /\ amount' = a
  /\ UNCHANGED << sourceChain, destinationChain, merchantAddress, selectedHook,
                  fastTransferEnabled >>

SetMerchantAddress(m) ==
  /\ Edit
  /\ m # merchantAddress
  /\ merchantAddress' = m
  /\ UNCHANGED << sourceChain, destinationChain, amount, selectedHook,
                  fastTransferEnabled >>

\* the Fast Transfer toggle
ToggleFastTransfer ==
  /\ Edit
  /\ fastTransferEnabled' = ~fastTransferEnabled
  /\ UNCHANGED << sourceChain, destinationChain, amount, merchantAddress,
                  selectedHook >>

\* a hook button (rendered only while fastTransferEnabled)
ToggleHook(key) ==
  /\ Edit
  /\ fastTransferEnabled
  /\ selectedHook' = IF selectedHook = key THEN "null" ELSE key
  /\ UNCHANGED << sourceChain, destinationChain, amount, merchantAddress,
                  fastTransferEnabled >>

(***************************************************************************)
(* processPayment (lines 280-411) with switchNetwork (lines 259-277).      *)
(* One action per await: the action is the answer of the awaited request   *)
(* and the synchronous code up to the next await.                          *)
(***************************************************************************)
\* a variant of ProcessPaymentDisabled: the guard without isProcessing
ProcessPaymentDisabled_IgnoresProcessing ==
  \/ account = Null
  \/ amount = << >>
  \/ NotPositive(parseFloat(amount))

\* disabled={!account || isProcessing || !amount || parseFloat(amount) <= 0}
ProcessPaymentDisabled ==
  \/ account = Null
  \/ isProcessing
  \/ amount = << >>
  \/ NotPositive(parseFloat(amount))

\* approveData (lines 302-305)
approveData(r) ==
  The({ encodeFunctionCall("approve", params) :
        params \in {[NoParams EXCEPT
                       !.spender = CHAIN_CONFIG[r.sourceChain].tokenMessenger,
                       !.amount = amountInUnits(r.amount)]} })

\* if (selectedHook && fastTransferEnabled) (line 335)
burnFunction(r) ==
  IF r.selectedHook # "null" /\ r.fastTransferEnabled
  THEN "depositForBurnWithHook" ELSE "depositForBurnWithCaller"

\* burnData (lines 332-354)
burnData(r) ==
  The({ IF burnFunction(r) = "depositForBurnWithHook"
        THEN The({ encodeFunctionCall("depositForBurnWithHook", params) :
                   params \in {[base EXCEPT
                                  !.hookData = HOOK_TEMPLATES[r.selectedHook].hookData]} })
        ELSE The({ encodeFunctionCall("depositForBurnWithCaller", params) :
                   params \in {[base EXCEPT
                                  !.destinationCaller = addressToBytes32(ZeroAddress)]} }) :
        base \in {[NoParams EXCEPT
                     !.amount = amountInUnits(r.amount),
                     !.destinationDomain = JsNum(CHAIN_CONFIG[r.destinationChain].domain),
                     !.mintRecipient = addressToBytes32(r.merchantAddress),
                     !.burnToken = CHAIN_CONFIG[r.sourceChain].usdc]} })

\* the success status of lines 375-387
SuccessStatus(r, tx) ==
  [status |-> "success", message |-> "Payment sent successfully!",
   hasDetails |-> TRUE,
   from |-> CHAIN_CONFIG[r.sourceChain].name,
   to |-> CHAIN_CONFIG[r.destinationChain].name,
   amount |-> r.amount \o <<" ", "U", "S", "D", "C">>,
   recipient |-> r.merchantAddress,
   txHash |-> tx,
   estimatedTime |-> IF r.fastTransferEnabled THEN "~10 seconds" ELSE "~15 minutes",
   hook |-> IF r.selectedHook # "null" THEN HOOK_TEMPLATES[r.selectedHook].name ELSE "None",
   attestationReceived |-> FALSE]

\* a variant of CatchFinally: the catch block without the finally block
CatchFinally_NoFinally(message) ==
  /\ transactionStatus' = Status("error", message)
  /\ UNCHANGED isProcessing
  /\ pc' = "idle"

\* catch and finally (lines 402-410)
CatchFinally(message) ==
  /\ transactionStatus' = Status("error", message)
  /\ isProcessing' = FALSE
  /\ pc' = "idle"

\* a variant of AfterApproveRejected: the submission is tried again
AfterApproveRejected_Retry == "approve"

\* the rejected eth_sendTransaction of the approval throws out of the try
\* block (line 307): control goes to the catch block of line 402
AfterApproveRejected == "catch"

\* a variant of AfterNullReceipt: the approval loop ends on a null receipt
AfterNullReceipt_LoopEnds(sleep) == IF sleep = "approve_sleep" THEN "burn" ELSE sleep

\* while (!approveReceipt) / while (!burnReceipt) (lines 324, 373): a null
\* receipt sends the loop back to its 2-second sleep
AfterNullReceipt(sleep) == sleep

\* click on Process Payment: lines 281-291 up to the
\* wallet_switchEthereumChain request of switchNetwork
ProcessPaymentClick ==
  /\ ~ProcessPaymentDisabled
  /\ events < MaxEvents
  /\ events' = events + 1
  /\ isProcessing' = TRUE
  /\ transactionStatus' = Status("pending", "Initiating payment...")
  /\ req' = [account |-> account, sourceChain |-> sourceChain,
             destinationChain |-> destinationChain, amount |-> amount,
             merchantAddress |-> merchantAddress, selectedHook |-> selectedHook,
             fastTransferEnabled |-> fastTransferEnabled, balances |-> balances]
  /\ pc' = "wallet_switchEthereumChain"
  /\ approveTx' = 0
  /\ burnTx' = 0
  /\ calls' = << >>
  /\ UNCHANGED << account, formVars, balances, walletVars, timers, updates,
                  handlers, connectVars, callVars >>

\* lines 296-314: the status 'Approving USDC...' and the approve submission
ToApprove ==
  /\ transactionStatus' = Status("pending", "Approving USDC...")
  /\ pc' = "approve"

\* wallet_switchEthereumChain is answered.  On success the wallet is on the
\* source chain (and notifies chainChanged if that is a change) and
\* switchNetwork goes on to getUSDCBalance; a failure (4902: unknown chain,
\* 4001: rejected by the user) is caught inside switchNetwork, which returns
\* normally, and processPayment goes on to the approval
SwitchResult(result) ==
  /\ pc = "wallet_switchEthereumChain"
  /\ calls' = Append(calls, Call("wallet_switchEthereumChain", << >>, << >>,
                                 IF result = "ok" THEN "ok" ELSE "error", 0))
  /\ IF result = "ok"
     THEN /\ walletChain' = req.sourceChain
          /\ updates' = IF walletChain # req.sourceChain
                        THEN updates \o ChainChangedUpdates(handlers) ELSE updates
          /\ IF req.account # Null
             THEN /\ pc' = "switch_getUSDCBalance"
                  /\ UNCHANGED transactionStatus
             ELSE ToApprove
     ELSE /\ ToApprove
          /\ UNCHANGED << walletChain, updates >>
  /\ UNCHANGED << account, formVars, isProcessing, balances, receipts, nextTx, req,
                  approveTx, burnTx, timers, handlers, connectVars, callVars, events >>

\* getUSDCBalance of switchNetwork returns and
\* setBalances(prev => ({ ...prev, [chainId]: balance })) runs (line 269)
SwitchBalance(fetched) ==
  /\ pc = "switch_getUSDCBalance"
  /\ balances' = [c \in (DOMAIN balances) \cup {req.sourceChain} |->
                    IF c = req.sourceChain THEN fetched ELSE balances[c]]
  /\ ToApprove
  /\ UNCHANGED << account, formVars, isProcessing, walletVars, req, approveTx,
                  burnTx, calls, timers, updates, handlers, connectVars, callVars, events >>

\* eth_sendTransaction of the approval is answered (lines 307-314)
ApproveResult(accepted) ==
  /\ pc = "approve"
  /\ calls' = Append(calls,
       Call("eth_sendTransaction", CHAIN_CONFIG[req.sourceChain].usdc,
            approveData(req).s, IF accepted THEN "ok" ELSE "rejected",
            IF accepted THEN nextTx ELSE 0))
  /\ IF accepted
     THEN /\ approveTx' = nextTx
          /\ nextTx' = nextTx + 1
          /\ receipts' = Append(receipts, "none")
          /\ pc' = "approve_sleep"
          /\ UNCHANGED << transactionStatus, isProcessing >>
     ELSE /\ IF AfterApproveRejected = "catch"
             THEN CatchFinally("Payment failed: User rejected the request.")
             ELSE /\ pc' = AfterApproveRejected
                  /\ UNCHANGED << transactionStatus, isProcessing >>
          /\ UNCHANGED << approveTx, nextTx, receipts >>
  /\ UNCHANGED << account, formVars, balances, walletChain, req, burnTx, timers,
                  updates, handlers, connectVars, callVars, events >>

\* the 2-second timer of a poll loop fires (lines 319, 368)
PollSleep ==
  /\ \/ pc = "approve_sleep" /\ pc' = "approve_poll"
     \/ pc = "burn_sleep" /\ pc' = "burn_poll"
  /\ UNCHANGED << account, formVars, isProcessing, transactionStatus, balances,
                  walletVars, req, approveTx, burnTx, calls, timers, updates,
                  handlers, connectVars, callVars, events >>

\* eth_getTransactionReceipt of the approval is answered (lines 320-324).
\* null: the loop sleeps again.  A receipt: lines 327-363 run up to the
\* burn submission; encodeFunctionCall throwing lands in the catch block
ApprovePoll(failed) ==
  /\ pc = "approve_poll"
  /\ IF failed
     THEN /\ CatchFinally("Payment failed: provider error")
          /\ calls' = Append(calls, Call("eth_getTransactionReceipt", << >>, << >>,
                                         "error", approveTx))
     ELSE IF receipts[approveTx] = "none"
     THEN /\ pc' = AfterNullReceipt("approve_sleep")
          /\ UNCHANGED << calls, transactionStatus, isProcessing >>
     ELSE /\ calls' = Append(calls, Call("eth_getTransactionReceipt", << >>, << >>,
                                         receipts[approveTx], approveTx))
          /\ IF burnData(req).thrown
             THEN CatchFinally("Payment failed: hex.padStart is not a function")
             ELSE /\ transactionStatus' =
                       Status("pending", IF req.fastTransferEnabled
                                         THEN "Initiating Fast Transfer..."
                                         ELSE "Initiating Standard Transfer...")
                  /\ pc' = "burn"
                  /\ UNCHANGED isProcessing
  /\ UNCHANGED << account, formVars, balances, walletVars, req, approveTx, burnTx,
                  timers, updates, handlers, connectVars, callVars, events >>

\* eth_sendTransaction of the burn is answered (lines 356-363)
BurnResult(accepted) ==
  /\ pc = "burn"
  /\ calls' = Append(calls,
       Call("eth_sendTransaction", CHAIN_CONFIG[req.sourceChain].tokenMessenger,
            burnData(req).s, IF accepted THEN "ok" ELSE "rejected",
            IF accepted THEN nextTx ELSE 0))
  /\ IF accepted
     THEN /\ burnTx' = nextTx
          /\ nextTx' = nextTx + 1
          /\ receipts' = Append(receipts, "none")
          /\ pc' = "burn_sleep"
          /\ UNCHANGED << transactionStatus, isProcessing >>
     ELSE /\ CatchFinally("Payment failed: User rejected the request.")
          /\ UNCHANGED << burnTx, nextTx, receipts >>
  /\ UNCHANGED << account, formVars, balances, walletChain, req, approveTx, timers,
                  updates, handlers, connectVars, callVars, events >>

\* eth_getTransactionReceipt of the burn is answered (lines 369-410): on a
\* receipt the success status is set, the two timers are started and
\* finally clears isProcessing
BurnPoll(failed) ==
  /\ pc = "burn_poll"
  /\ IF failed
     THEN /\ CatchFinally("Payment failed: provider error")
          /\ calls' = Append(calls, Call("eth_getTransactionReceipt", << >>, << >>,
                                         "error", burnTx))
          /\ UNCHANGED timers
     ELSE IF receipts[burnTx] = "none"
     THEN /\ pc' = AfterNullReceipt("burn_sleep")
          /\ UNCHANGED << calls, timers, transactionStatus, isProcessing >>
     ELSE /\ calls' = Append(calls, Call("eth_getTransactionReceipt", << >>, << >>,
                                         receipts[burnTx], burnTx))
          /\ transactionStatus' = SuccessStatus(req, burnTx)
          /\ timers' = timers
               \o (IF req.fastTransferEnabled
                   THEN << [kind |-> "attestation", account |-> Null,
                            balances |-> EmptyBalances] >>
                   ELSE << >>)
               \o << [kind |-> "updateBalances", account |-> req.account,
                      balances |-> req.balances] >>
          /\ isProcessing' = FALSE
          /\ pc' = "idle"
  /\ UNCHANGED << account, formVars, balances, walletVars, req, approveTx, burnTx,
                  updates, handlers, connectVars, callVars, events >>

(***************************************************************************)
(* The setTimeout callbacks of processPayment.                             *)
(***************************************************************************)
\* timers fire in the order of their deadlines: the 5-second timer of a
\* transfer before its 10-second timer, equal delays in the order set
MayFire(i) ==
  /\ i \in DOMAIN timers
  /\ \A j \in 1..(i - 1) :
       /\ timers[j].kind # timers[i].kind
       /\ timers[j].kind # "attestation"

\* lines 391-397: the simulated attestation completion
AttestationTimer(i) ==
  /\ MayFire(i)
  /\ timers[i].kind = "attestation"
  /\ transactionStatus' =
       [transactionStatus EXCEPT
          !.message = "Transfer completed! Funds received on destination chain.",
          !.attestationReceived = TRUE]
  /\ timers' = RemoveAt(timers, i)
  /\ UNCHANGED << account, formVars, isProcessing, balances, walletVars,
                  paymentVars, updates, handlers, connectVars, callVars, events >>

\* line 401: setTimeout(() => updateBalances(account), 10000)
UpdateBalancesTimer(i) ==
  /\ MayFire(i)
  /\ timers[i].kind = "updateBalances"
  /\ updates' = Append(updates, Update(timers[i].account, timers[i].balances))
  /\ timers' = RemoveAt(timers, i)
  /\ UNCHANGED << account, formVars, isProcessing, transactionStatus, balances,
                  walletVars, paymentVars, handlers, connectVars, callVars, events >>

(***************************************************************************)
(* encodeFunctionCall and the amount conversion called on their own.       *)
(***************************************************************************)
pageVars == << account, formVars, isProcessing, transactionStatus, balances,
               walletVars, paymentVars, timers, updates, handlers, connectVars,
               events >>

\* encodeFunctionCall(functionName, params) returns or throws
Encode ==
  /\ output = NoCall
  /\ output' = << encodeFunctionCall(input.functionName, input.params) >>
  /\ UNCHANGED << pageVars, input >>

\* const amountInUnits = Math.floor(parseFloat(amount) * 1e6) is evaluated
Convert ==
  /\ output = NoCall
  /\ output' = << amountInUnits(input) >>
  /\ UNCHANGED << pageVars, input >>

\* the module is loaded with the registry input as CHAIN_CONFIG (lines
\* 17-84) and the component mounts (lines 163-173): no statement between
\* the two reads the domains, and the registry is the one transfers use
LoadRegistry ==
  /\ output = NoCall
  /\ output' = << [failed |-> FALSE, registry |-> input] >>
  /\ UNCHANGED << pageVars, input >>

(***************************************************************************)
(* The specification.                                                      *)
(***************************************************************************)
Next ==
  \/ ConnectClick
  \/ \E ok \in BOOLEAN : ConnectResult(ok)
  \/ \E connected \in BOOLEAN : AccountsChanged(connected)
  \/ \E c \in WalletChains : ChainChanged(c)
  \/ \E tx \in DOMAIN receipts, result \in {"0x1", "0x0"} : Mine(tx, result)
  \/ \E i \in DOMAIN updates : UpdateChainId(i)
  \/ \E i \in DOMAIN updates, fetched \in BalanceResults \cup {"0"} : UpdateBalance(i, fetched)
  \/ \E c \in FormChains : SetSourceChain(c)
  \/ \E c \in FormChains : SetDestinationChain(c)
  \/ \E a \in Amounts : SetAmount(a)
  \/ \E m \in MerchantAddresses : SetMerchantAddress(m)
  \/ ToggleFastTransfer
  \/ \E key \in FormHooks : ToggleHook(key)
  \/ ProcessPaymentClick
  \/ \E result \in {"ok", "4902", "4001"} : SwitchResult(result)
  \/ \E fetched \in BalanceResults \cup {"0"} : SwitchBalance(fetched)
  \/ \E accepted \in BOOLEAN : ApproveResult(accepted)
  \/ PollSleep
  \/ \E failed \in BOOLEAN : ApprovePoll(failed)
  \/ \E accepted \in BOOLEAN : BurnResult(accepted)
  \/ \E failed \in BOOLEAN : BurnPoll(failed)
  \/ \E i \in DOMAIN timers : AttestationTimer(i)
  \/ \E i \in DOMAIN timers : UpdateBalancesTimer(i)

Spec == Init /\ [][Next]_vars

\* The event loop runs every continuation that is ready: a timer that has
\* expired fires and a wallet request is answered.  Nothing makes the
\* chain include a transaction (Mine) or the user act.
Fairness ==
  /\ WF_vars(\E result \in {"ok", "4902", "4001"} : SwitchResult(result))
  /\ WF_vars(\E fetched \in BalanceResults \cup {"0"} : SwitchBalance(fetched))
  /\ WF_vars(\E accepted \in BOOLEAN : ApproveResult(accepted))
  /\ WF_vars(PollSleep)
  /\ WF_vars(\E failed \in BOOLEAN : ApprovePoll(failed))
  /\ WF_vars(\E accepted \in BOOLEAN : BurnResult(accepted))
  /\ WF_vars(\E failed \in BOOLEAN : BurnPoll(failed))

FairSpec == Spec /\ Fairness

\* the page after the user has clicked the selected hook button once more:
\* setSelectedHook(selectedHook === key ? null : key) (line 608)
InitNoHook ==
  /\ Mounted("null")
  /\ input = NoCall
  /\ output = NoCall

SpecNoHook == InitNoHook /\ [][Next]_vars

\* encodeFunctionCall applied to every name of EncodeNames and every params
\* object of EncodeParams
EncodeInit ==
  /\ Mounted("treasuryRebalance")
  /\ input \in [functionName : EncodeNames, params : EncodeParams]
  /\ output = NoCall

EncodeSpec == EncodeInit /\ [][Encode]_vars

\* the conversion of line 297 applied to every amount of ConvertAmounts
ConvertInit ==
  /\ Mounted("treasuryRebalance")
  /\ input \in ConvertAmounts
  /\ output = NoCall

ConvertSpec == ConvertInit /\ [][Convert]_vars

\* the module loaded with every registry of Registries
RegistryInit ==
  /\ Mounted("treasuryRebalance")
  /\ input \in Registries
  /\ output = NoCall

RegistrySpec == RegistryInit /\ [][LoadRegistry]_vars

TypeOK ==
  /\ isProcessing = (pc # "idle")
  /\ pc \in {"idle", "wallet_switchEthereumChain", "switch_getUSDCBalance", "approve",
             "approve_sleep", "approve_poll", "burn", "burn_sleep", "burn_poll"}

(***************************************************************************)
(* Properties.  calls holds the answered wallet requests of the transfer   *)
(* started by the last click on Process Payment, req what its closure      *)
(* captured.                                                               *)
(***************************************************************************)
Selector(c) == SubSeq(c.data, 1, 10)

IsSend(c) == c.method = "eth_sendTransaction"
IsApprove(c) == IsSend(c) /\ Selector(c) = sig_approve
IsBurn(c) == IsSend(c) /\ Selector(c) \in {sig_depositForBurnWithCaller,
                                           sig_depositForBurnWithHook}
\* a non-null receipt returned for transaction tx
IsReceipt(c, tx) ==
  c.method = "eth_getTransactionReceipt" /\ c.tx = tx /\ c.result \in {"0x1", "0x0"}

Started == pc # "idle" \/ calls # << >>
InPoll == pc \in {"approve_sleep", "approve_poll", "burn_sleep", "burn_poll"}
ApproveReceiptReturned == \E k \in DOMAIN calls : IsReceipt(calls[k], approveTx)
HookAndFast == req.selectedHook # "null" /\ req.fastTransferEnabled

\* C1: within one transfer every burn submission comes after an accepted
\* approve submission and a non-null receipt of that approval, every burn
\* receipt after its burn submission, and the burn request is outstanding
\* only once the approval receipt has been returned.
C1_ApproveBeforeBurn ==
  /\ \A i \in DOMAIN calls :
       IsBurn(calls[i]) =>
         \E j \in 1..(i - 1) :
           /\ IsApprove(calls[j]) /\ calls[j].result = "ok"
           /\ \E k \in (j + 1)..(i - 1) : IsReceipt(calls[k], calls[j].tx)
  /\ \A i \in DOMAIN calls :
       (burnTx # 0 /\ IsReceipt(calls[i], burnTx)) =>
         \E j \in 1..(i - 1) : IsBurn(calls[j]) /\ calls[j].tx = burnTx
  /\ pc \in {"burn", "burn_sleep", "burn_poll"} => ApproveReceiptReturned

\* C1 witness: a transfer that ran through all four steps
C1_Witness ==
  /\ Len(calls) = 5
  /\ IsApprove(calls[2]) /\ IsReceipt(calls[3], approveTx)
  /\ IsBurn(calls[4]) /\ IsReceipt(calls[5], burnTx)

\* C2: once the approval receipt has been returned the burn call is encoded:
\* as depositForBurnWithHook exactly when a hook is selected and fast
\* transfer is enabled, otherwise as depositForBurnWithCaller whose
\* destinationCaller is 32 zero bytes.
C2_BurnVariant ==
  ApproveReceiptReturned =>
    LET d == burnData(req) IN
    /\ ~d.thrown
    /\ IF HookAndFast
       THEN SubSeq(d.s, 1, 10) = sig_depositForBurnWithHook
       ELSE /\ SubSeq(d.s, 1, 10) = sig_depositForBurnWithCaller
            /\ Len(d.s) = 10 + 5 * 64
            /\ \A i \in (Len(d.s) - 63)..Len(d.s) : d.s[i] = "0"

\* the wallet accepted every request of the transfer and every receipt that
\* was returned reports success
AllAnswersOk == \A i \in DOMAIN calls : calls[i].result \in {"ok", "0x1"}

\* the request of C3: Ethereum -> Arbitrum, amount "10", FAST, treasuryRebalance
C3_Request ==
  /\ req.sourceChain = 1 /\ req.destinationChain = 42161
  /\ req.amount = <<"1", "0">>
  /\ req.fastTransferEnabled /\ req.selectedHook = "treasuryRebalance"

\* C3: with every request accepted, the transfer of C3_Request that has had
\* its approval receipt goes on to submit depositForBurnWithHook and, once
\* it has ended, is in the success state and not in the error state; its
\* approve call is approve(tokenMessenger of Ethereum, 10000000 = 0x989680).
C3_FastHookCompletes ==
  (C3_Request /\ AllAnswersOk /\ ApproveReceiptReturned) =>
    /\ IsApprove(calls[2])
    /\ SubSeq(calls[2].data, 11, 74) = padStart(Slice2(tokenMessenger_Ethereum), 64)
    /\ SubSeq(calls[2].data, 75, 138) = padStart(<<"9", "8", "9", "6", "8", "0">>, 64)
    /\ transactionStatus.status # "error"
    /\ pc = "idle" =>
         /\ transactionStatus.status = "success"
         /\ \E i \in DOMAIN calls :
              IsBurn(calls[i]) /\ Selector(calls[i]) = sig_depositForBurnWithHook

\* C4: a transfer that is polling for a receipt always comes to an end
\* (checked under FairSpec, where the receipt may never be returned).
C4_PollTerminates == InPoll ~> (pc = "idle")

\* C5: a transfer whose chain switch failed is in the failed state and has
\* submitted (and has outstanding) no approve or burn transaction.
C5_SwitchFailureFails ==
  (\E i \in DOMAIN calls :
     calls[i].method = "wallet_switchEthereumChain" /\ calls[i].result = "error") =>
    /\ pc = "idle"
    /\ transactionStatus.status = "error"
    /\ \A i \in DOMAIN calls : ~IsSend(calls[i])

\* C6: every transaction the wallet accepted was submitted while the
\* wallet's active chain was the source chain of the transfer.
C6_SubmittedOnSourceChain ==
  \A i \in DOMAIN calls :
    (IsSend(calls[i]) /\ calls[i].result = "ok") => calls[i].chain = req.sourceChain

\* a request the specification accepts: positive amount, distinct chains,
\* recipient 0x followed by 40 hexadecimal digits
ValidRequest(r) ==
  /\ r.amount # << >> /\ ~parseFloat(r.amount).nan /\ ~NotPositive(parseFloat(r.amount))
  /\ r.sourceChain # r.destinationChain
  /\ WellFormedAddress(r.merchantAddress)

\* C7: a transfer is started (its chain switch requested) only for a valid
\* request: an invalid request issues no wallet request.
C7_InvalidRequestNoInteraction == Started => ValidRequest(req)

\* C8: the status reports the completed transfer (attestationReceived) only
\* if an attestation for its burn transaction was requested and returned.
C8_CompleteOnlyAfterAttestation ==
  transactionStatus.attestationReceived =>
    \E i \in DOMAIN calls :
      /\ calls[i].method = "fetchAttestation"
      /\ calls[i].tx = transactionStatus.txHash
      /\ calls[i].result = "ok"

ApproveRejected ==
  \E i \in DOMAIN calls : IsApprove(calls[i]) /\ calls[i].result = "rejected"

LastAcceptedTx == IF burnTx # 0 THEN burnTx ELSE approveTx

\* C10: a transfer that ended in the error state after one of its
\* transactions was accepted still shows the hash of the last accepted one.
C10_FailedKeepsTxReference ==
  (pc = "idle" /\ transactionStatus.status = "error" /\ LastAcceptedTx # 0) =>
    transactionStatus.txHash = LastAcceptedTx

CompletedMessage == "Transfer completed! Funds received on destination chain."

\* C11: a step of an earlier transfer, its delayed attestation timer
\* included, never modifies the status record of a later transfer: the
\* pending or error status of the transfer in progress or just ended never
\* carries the completion message or the attestationReceived flag, which
\* only the timer of a transfer that succeeded writes.
C11_TimerLeavesLaterTransfer ==
  transactionStatus.status \in {"pending", "error"} =>
    /\ ~transactionStatus.attestationReceived
    /\ transactionStatus.message # CompletedMessage

\* the k-th 32-byte argument word of call data
Word(d, k) == SubSeq(d, 11 + 64 * (k - 1), 10 + 64 * k)

HexVal(c) ==
  IF c \in Digits THEN DigitVal(c)
  ELSE CHOOSE v \in 10..15 :
         <<"a", "b", "c", "d", "e", "f">>[v - 9] = c \/ <<"A", "B", "C", "D", "E", "F">>[v - 9] = c

\* the number a big-endian hexadecimal word denotes
RECURSIVE HexToNat(_)
HexToNat(w) ==
  IF w = << >> THEN 0
  ELSE 16 * HexToNat(SubSeq(w, 1, Len(w) - 1)) + HexVal(w[Len(w)])

\* C12: every approve of a transfer goes to the USDC contract of the source
\* chain chosen at the click, with that chain's tokenMessenger as spender;
\* every burn goes to that tokenMessenger, with that USDC contract as
\* burnToken and the domain of the destination chain chosen at the click;
\* and both carry the base-unit value of the amount entered at the click,
\* whatever the form shows by the time they are submitted.
C12_CallsMatchRequest ==
  \A i \in DOMAIN calls :
    IsSend(calls[i]) =>
      LET src == CHAIN_CONFIG[req.sourceChain]
          d   == calls[i].data
      IN  IF IsApprove(calls[i])
          THEN /\ calls[i].to = src.usdc
               /\ Word(d, 1) = padStart(Slice2(src.tokenMessenger), 64)
               /\ HexToNat(Word(d, 2)) = amountInUnits(req.amount).n
               /\ \A j \in DOMAIN calls :
                    IsBurn(calls[j]) => Word(calls[j].data, 1) = Word(d, 2)
          ELSE /\ IsBurn(calls[i])
               /\ calls[i].to = src.tokenMessenger
               /\ HexToNat(Word(d, 1)) = amountInUnits(req.amount).n
               /\ HexToNat(Word(d, 2)) = CHAIN_CONFIG[req.destinationChain].domain
               /\ Word(d, 4) = padStart(Slice2(src.usdc), 64)

\* floor(amount * 10^6) of a non-negative decimal literal, in exact
\* arithmetic: the integer digits followed by the first six fraction digits
FloorOfDecimal(a) ==
  LET v   == parseFloat(a)
      six == SubSeq(v.frac \o <<"0", "0", "0", "0", "0", "0">>, 1, 6)
  IN  DigitsToNat(v.int) * 1000000 + DigitsToNat(six)

\* C13: for every positive decimal amount the base-unit value computed is
\* floor(amount * 10^6): the amount times 10^6 with any remainder below one
\* base unit dropped, never rounded.
C13_TruncatesToBaseUnits ==
  (output # NoCall /\ ~NotPositive(parseFloat(input))) =>
    output[1] = JsNum(FloorOfDecimal(input))

\* C14: encodeFunctionCall called with a name that is not one of the five
\* registered names fails with an error and returns no call data.
C14_UnknownFunctionFails ==
  (output # NoCall /\ input.functionName \notin DOMAIN functionSignatures) =>
    output[1].thrown /\ ~output[1].defined

Lower(c) ==
  CASE c = "A" -> "a" [] c = "B" -> "b" [] c = "C" -> "c"
    [] c = "D" -> "d" [] c = "E" -> "e" [] c = "F" -> "f" [] OTHER -> c

\* String.prototype.toLowerCase
toLowerCase(s) == [i \in 1..Len(s) |-> Lower(s[i])]

\* the expected payload of the approve test case of README.md (line 611)
ReadmeApproveExpected ==
  <<
    "0", "x", "0", "9", "5", "e", "a", "7", "b", "3", "0", "0", "0", "0", "0", "0",
    "0", "0", "0", "0", "0", "0", "0", "0", "0", "0", "0", "0", "0", "0", "0", "0",
    "0", "0", "b", "d", "3", "f", "a", "8", "1", "b", "5", "8", "b", "a", "9", "2",
    "a", "8", "2", "1", "3", "6", "0", "3", "8", "b", "2", "5", "a", "d", "e", "c",
    "7", "0", "6", "6", "a", "f", "3", "1", "5", "5", "0", "0", "0", "0", "0", "0",
    "0", "0", "0", "0", "0", "0", "0", "0", "0", "0", "0", "0", "0", "0", "0", "0",
    "0", "0", "0", "0", "0", "0", "0", "0", "0", "0", "0", "0", "0", "0", "0", "0",
    "0", "0", "0", "0", "0", "0", "0", "0", "0", "0", "0", "0", "0", "0", "0", "0",
    "0", "0", "0", "0", "0", "f", "4", "2", "4", "0" >>

\* C15: encodeFunctionCall('approve', {spender, amount}) returns 0x, the
\* selector 095ea7b3, the 20-byte spender left-padded with zeros to 32
\* bytes and the amount as big-endian hexadecimal left-padded with zeros to
\* 32 bytes, 4 + 64 bytes in all; for spender 0xBd3f...3155 and amount
\* 1000000 that is the payload of the README test case (in lower case).
C15_ApproveEncoding ==
  (output # NoCall /\ input.functionName = "approve") =>
    LET d == output[1] IN
    /\ ~d.thrown /\ d.defined
    /\ Len(d.s) = 2 + 2 * (4 + 64)
    /\ SubSeq(d.s, 1, 10) = <<"0", "x", "0", "9", "5", "e", "a", "7", "b", "3">>
    /\ \A i \in 11..34 : d.s[i] = "0"
    /\ SubSeq(d.s, 35, 74) = Slice2(input.params.spender)
    /\ \A i \in 75..131 : d.s[i] = "0"
    /\ HexToNat(SubSeq(d.s, 132, 138)) = input.params.amount.n
    /\ (input.params.spender = tokenMessenger_Ethereum
        /\ input.params.amount.n = 1000000) =>
         toLowerCase(d.s) = ReadmeApproveExpected

\* C15 witness: the approve call of the README test case has been encoded
C15_Witness ==
  /\ output # NoCall
  /\ input.functionName = "approve"
  /\ input.params.spender = tokenMessenger_Ethereum
  /\ input.params.amount = JsNum(1000000)

\* C16: in the depositForBurnWithHook call data hookData is encoded as a
\* head pointer (fifth word), a length word holding its number of bytes and
\* its content padded with zeros on the right to a 32-byte boundary, so
\* that the arguments after the selector are a whole number of 32-byte
\* words.
C16_HookDataPadded ==
  (output # NoCall /\ input.functionName = "depositForBurnWithHook") =>
    LET d     == output[1]
        bytes == Slice2(input.params.hookData)
    IN  /\ ~d.thrown /\ d.defined
        /\ (Len(d.s) - 10) % 64 = 0
        /\ HexToNat(SubSeq(Word(d.s, 6), 58, 64)) = Len(bytes) \div 2
        /\ SubSeq(d.s, 10 + 6 * 64 + 1, 10 + 6 * 64 + Len(bytes)) = bytes
        /\ \A i \in (10 + 6 * 64 + Len(bytes) + 1)..Len(d.s) : d.s[i] = "0"

\* C18: a call of updateBalances that completes changes only the entry of
\* the chain it found active: for every other registered chain the balance
\* held after the update is the value held before it ('0' when none was
\* held), so a fetched balance of a non-active chain is never reset.
C18_UpdateKeepsOtherChains ==
  [][\A i \in DOMAIN updates :
       updates' = RemoveAt(updates, i) =>
         \A c \in ChainIds \ {updates[i].cur} : balances'[c] = Cached(balances, c)]_vars

\* the step of processPayment before the approval that is not the return
\* of a balance query: the wallet answers the switch request
StepBeforeApprove == \E result \in {"ok", "4902", "4001"} : SwitchResult(result)

\* C19: a balance query never blocks the transfer: while processPayment has
\* started and has not reached the approve submission, a step of it that
\* is not the return of a balance query is possible, so a balance query
\* that never returns cannot stall the transfer.
C19_BalanceQueryNeverAwaited ==
  pc \in {"wallet_switchEthereumChain", "switch_getUSDCBalance"} =>
    ENABLED StepBeforeApprove

\* C20: the selected source chain differs from the selected destination
\* chain in every state of the form.
C20_SourceDiffersFromDestination == sourceChain # destinationChain

\* the conflicts verifyDomainMappings (README.md, lines 323-348) reports for
\* a registry: the pairs of chains, in the order of Object.entries, that
\* share a domain with a chain before them
DomainConflicts(registry) ==
  { <<c, d>> \in (DOMAIN registry) \X (DOMAIN registry) :
      c < d /\ registry[c] = registry[d] }

UserStep ==
  \/ ConnectClick
  \/ \E c \in FormChains : SetSourceChain(c)
  \/ \E c \in FormChains : SetDestinationChain(c)
  \/ \E a \in Amounts : SetAmount(a)
  \/ \E m \in MerchantAddresses : SetMerchantAddress(m)
  \/ ToggleFastTransfer
  \/ \E key \in FormHooks : ToggleHook(key)
  \/ ProcessPaymentClick

\* a transfer whose burn is recorded waits for its attestation
AwaitingAttestation == \E i \in DOMAIN timers : timers[i].kind = "attestation"

\* C22: a transfer that waits for its attestation can be cancelled: an
\* operation of the user stops the pending attestation poll and leaves the
\* recorded burn transaction reference as it is.
C22_CancelStopsPolling ==
  (AwaitingAttestation /\ events < MaxEvents) =>
    ENABLED (/\ UserStep
             /\ \A i \in DOMAIN timers' : timers'[i].kind # "attestation"
             /\ transactionStatus'.txHash = transactionStatus.txHash)

\* C23: the status 'success' is set only for a transfer whose burn receipt
\* reports successful execution: a receipt of a reverted burn (status 0x0)
\* leads to the error status.
C23_SuccessOnlyAfterBurnSucceeded ==
  (transactionStatus.status = "success" /\ transactionStatus.hasDetails) =>
    receipts[transactionStatus.txHash] = "0x1"

\* C24: every approve and every burn submitted carries an amount of at
\* least one base unit: an amount that passes the guard of the Process
\* Payment button never becomes zero in the call data.
C24_SubmittedAmountAtLeastOne ==
  \A i \in DOMAIN calls :
    /\ IsApprove(calls[i]) => HexToNat(Word(calls[i].data, 2)) >= 1
    /\ IsBurn(calls[i]) => HexToNat(Word(calls[i].data, 1)) >= 1

\* C25: in the depositForBurnWithHook call data the head pointer of
\* hookData (fifth word) is the size in bytes of the five-word head, which
\* is the offset of the word holding hookData's length, and that word
\* (the sixth) is the number of bytes of hookData.
C25_HookPointerAndLength ==
  (output # NoCall /\ input.functionName = "depositForBurnWithHook") =>
    LET d == output[1] IN
    /\ ~d.thrown /\ d.defined
    /\ Len(d.s) >= 10 + 6 * 64
    /\ HexToNat(SubSeq(Word(d.s, 5), 58, 64)) = 5 * 32
    /\ HexToNat(SubSeq(Word(d.s, 6), 58, 64)) = Len(Slice2(input.params.hookData)) \div 2

\* C26: the hook named in the details of a success status is the hook
\* encoded into the burn: when the burn was submitted as
\* depositForBurnWithCaller the details name the hook 'None'.
C26_ReportedHookIsEncodedHook ==
  (transactionStatus.status = "success" /\ transactionStatus.hasDetails) =>
    \A i \in DOMAIN calls :
      (IsSend(calls[i]) /\ Selector(calls[i]) = sig_depositForBurnWithCaller) =>
        transactionStatus.hook = "None"

\* C27: isProcessing is true exactly while an invocation of processPayment
\* is in flight: from its start until it has ended, with the success
\* status or through the catch block.
C27_ProcessingWhileInFlight == isProcessing <=> pc # "idle"

\* C27 witness: a transfer has ended, in success or in error, and
\* isProcessing is false again
C27_Witness ==
  /\ pc = "idle"
  /\ ~isProcessing
  /\ transactionStatus.status \in {"success", "error"}

\* C28: at most one transfer is in flight: while a transfer has not ended
\* the Process Payment action is disabled, so no second transfer starts
\* (and submits an approve) before the first has ended in success or error.
C28_OneTransferInFlight ==
  (isProcessing \/ pc # "idle") => ~ENABLED ProcessPaymentClick

\* C28 witness: a transfer is in flight while the account, the amount and
\* the event budget would allow another Process Payment click
C28_Witness ==
  /\ isProcessing
  /\ pc = "approve_sleep"
  /\ account # Null
  /\ amount # << >>
  /\ ~NotPositive(parseFloat(amount))
  /\ events < MaxEvents

\* C29: whenever no account is connected the balances map is empty: no
\* balance update started for the previous account writes balances after
\* the disconnect.
C29_NoAccountNoBalances == account = Null => balances = EmptyBalances

\* C30: every key of the balances map is the id of a registered chain.
C30_BalanceKeysRegistered == DOMAIN balances \subseteq ChainIds

\* C30 witness: balances were written while the wallet's active chain is
\* not in the registry
C30_Witness ==
  /\ walletChain \notin ChainIds
  /\ balances # EmptyBalances

====
